---- MODULE Spec2Model ----
(***************************************************************************)
(* Model of chunks.py: the RasterChunk class, its read_chunk and           *)
(* write_chunk methods and the parts of the GDAL / numpy backend they      *)
(* call.  Each method is one action; the operators below compute what the  *)
(* Python statements compute, statement by statement, including the        *)
(* exception a statement raises.                                           *)
(***************************************************************************)
EXTENDS Integers, Sequences, FiniteSets, TLC

VARIABLES src, request, fs, chunk, last, openHandles, nops

vars == <<src, request, fs, chunk, last, openHandles, nops>>

-----------------------------------------------------------------------------
(* Bounds of the explored inputs *)

MaxSrc == 3
MaxStart == 1
MaxRead == 2
MaxBuf == 2
MaxBands == 2
MaxOps == 2

-----------------------------------------------------------------------------
(* Python values *)

\* None is the empty tuple, any other value v is <<v>>
None == << >>

Some(v) == <<v>>

Max(a, b) == IF a > b THEN a ELSE b

Min(a, b) == IF a < b THEN a ELSE b

Abs(a) == IF a < 0 THEN -a ELSE a

\* nodata values a source band may report
NodataValues == {None, Some(0), Some(-9999)}

\* LongName of the drivers a source may have
DriverNames == {"GeoTIFF", "Virtual Raster"}

\* paths handed to read_chunk and write_chunk
DemPaths == {"dem.tif", "missing.tif"}

OutPaths == {"out.tif", "existing.tif"}

\* the files present before any operation
InitialFiles == [p \in {"dem.tif", "existing.tif"} |-> "original"]

\* the geotransform and projection every source reports
SrcTransform == <<0, 1, 0, 0, 0, -1>>

SrcProjection == "EPSG:4326"

SrcDataType == "Int32"

\* value of the source pixel of band b (1-based) at row r, column c;
\* injective, and never equal to a fill value
Pixel(b, r, c) == b * 10000 + r * 100 + c

-----------------------------------------------------------------------------
(* numpy *)

\* np.full((nb, ny, nx), v); a negative dimension raises ValueError (None here)
np_full(nb, ny, nx, v) ==
    IF nb < 0 \/ ny < 0 \/ nx < 0
    THEN None
    ELSE Some([nb |-> nb, ny |-> ny, nx |-> nx,
               cells |-> [p \in (0..(nb - 1)) \X (0..(ny - 1)) \X (0..(nx - 1)) |-> v]])

\* a slice bound i normalised against an axis of length len
SliceBound(i, len) == IF i < 0 THEN Max(i + len, 0) ELSE Min(i, len)

\* the first index and the length of the slice [start:stop] of an axis of length len
SliceStart(start, len) == SliceBound(start, len)

SliceLen(start, stop, len) == Max(SliceBound(stop, len) - SliceBound(start, len), 0)

\* can an (h, w) array be broadcast into an (sh, sw) slice
Broadcastable(h, w, sh, sw) == (h = sh \/ h = 1) /\ (w = sw \/ w = 1)

\* arr[idx, y0:y0+sh, x0:x0+sw] = read, read broadcast to the slice
AssignSlice(arr, idx, y0, sh, x0, sw, read) ==
    [arr EXCEPT !.cells =
        [p \in DOMAIN arr.cells |->
            IF p[1] = idx /\ p[2] >= y0 /\ p[2] < y0 + sh /\ p[3] >= x0 /\ p[3] < x0 + sw
            THEN read.cells[<<IF read.h = 1 THEN 0 ELSE p[2] - y0,
                              IF read.w = 1 THEN 0 ELSE p[3] - x0>>]
            ELSE arr.cells[p]]]

-----------------------------------------------------------------------------
(* GDAL *)

\* band.ReadAsArray(xoff, yoff, xsize, ysize): the window of the band, or None
\* when the window is empty or not inside the raster
ReadAsArray(s, band, xoff, yoff, xsize, ysize) ==
    IF /\ band >= 1 /\ band <= s.bands
       /\ xsize > 0 /\ ysize > 0
       /\ xoff >= 0 /\ yoff >= 0
       /\ xoff + xsize <= s.cols /\ yoff + ysize <= s.rows
    THEN Some([h |-> ysize, w |-> xsize,
               cells |-> [q \in (0..(ysize - 1)) \X (0..(xsize - 1)) |->
                             Pixel(band, yoff + q[1], xoff + q[2])]])
    ELSE None

\* one backend call in the order it was made
Event(call, band, args) == [call |-> call, band |-> band, args |-> args]

-----------------------------------------------------------------------------
(* RasterChunk *)

\* RasterChunk.__init__
NewChunk ==
    [rows |-> 0, cols |-> 0, buffer |-> 0, data_type |-> None, driver |-> None,
     bands |-> 0, transform |-> None, projection |-> None, cell_size |-> None,
     nodata |-> None, data_array |-> None]

\* the attribute names a RasterChunk instance can carry
ChunkAttrs ==
    {"rows", "cols", "buffer", "data_type", "driver", "bands", "transform",
     "projection", "cell_size", "nodata", "data_array"}

\* the test "self.nodata or self.nodata == 0"
NodataDefined(n) == (n # None /\ n[1] # 0) \/ (n # None /\ n[1] = 0)

\* window planning of read_chunk along one axis: the padded window, the
\* rectangle to read and the slice of data_array it is copied into
PlanAxis(start, size, buffer, src_size) ==
    LET p_size == size + 2 * buffer
        p_off == start - buffer
        near == p_off < 0
        far == p_off + p_size > src_size
    IN  [off |-> p_off,
         size |-> p_size,
         read_off |-> IF near THEN 0 ELSE p_off,
         read_size |-> p_size - (IF near THEN buffer ELSE 0) - (IF far THEN buffer ELSE 0),
         da_start |-> IF near THEN buffer ELSE 0,
         da_end |-> IF far THEN -buffer ELSE p_size]

\* the band loop of read_chunk from band on; st carries the local data_array,
\* the calls made, the (band, index) pairs stored and the exception raised
RECURSIVE BandLoop(_, _, _, _, _)
BandLoop(s, px, py, band, st) ==
    IF band > s.bands
    THEN st
    ELSE
        LET read_array == ReadAsArray(s, band, px.read_off, py.read_off,
                                      px.read_size, py.read_size)
            ev == st.events
                    \o <<Event("GetRasterBand", band, << >>),
                         Event("ReadAsArray", band,
                               <<px.read_off, py.read_off, px.read_size, py.read_size>>)>>
            raised(e) == [st EXCEPT !.events = ev, !.error = e]
        IN  IF st.local = None THEN raised("UnboundLocalError")
            ELSE
                LET arr == st.local[1]
                    y0 == SliceStart(py.da_start, arr.ny)
                    sh == SliceLen(py.da_start, py.da_end, arr.ny)
                    x0 == SliceStart(px.da_start, arr.nx)
                    sw == SliceLen(px.da_start, px.da_end, arr.nx)
                IN  IF band >= arr.nb THEN raised("IndexError")
                    ELSE IF read_array = None THEN raised("TypeError")
                    ELSE IF ~Broadcastable(read_array[1].h, read_array[1].w, sh, sw)
                         THEN raised("ValueError")
                    ELSE BandLoop(s, px, py, band + 1,
                            [st EXCEPT
                                !.events = ev,
                                !.stores = st.stores \o <<<<band, band>>>>,
                                !.local = Some(AssignSlice(arr, band, y0, sh, x0, sw,
                                                           read_array[1]))])

\* read_chunk(dem_path, x_start, y_start, read_x, read_y, buffer) on chunk c:
\* the chunk afterwards, the exception raised ("" when it returns), the
\* backend calls made, the plan, the local data_array and whether the source
\* handle is still held when the method is left
read_chunk(c, files, s, dem_path, x_start, y_start, read_x, read_y, buffer) ==
    LET opened == dem_path \in DOMAIN files
        ev0 == <<Event("Open", 0, << >>)>>
        base == [chunk |-> c, error |-> "", events |-> ev0, plan |-> None,
                 local |-> None, stores |-> << >>, held |-> FALSE]
    IN  IF ~opened
        THEN
            \* gdal.Open gave None: the first attribute read of file_handle
            \* raises, after the assignments that do not touch it
            IF read_y = 0
            THEN [base EXCEPT !.error = "AttributeError"]
            ELSE IF read_x = 0
            THEN [base EXCEPT !.chunk = [c EXCEPT !.rows = read_y],
                              !.error = "AttributeError"]
            ELSE [base EXCEPT !.chunk = [c EXCEPT !.rows = read_y, !.cols = read_x],
                              !.error = "AttributeError"]
        ELSE
            LET c1 == [c EXCEPT
                          !.rows = IF read_y # 0 THEN read_y ELSE s.rows,
                          !.cols = IF read_x # 0 THEN read_x ELSE s.cols,
                          !.driver = Some(s.driver),
                          !.bands = s.bands]
                ev1 == ev0 \o <<Event("GetRasterBand", 1, << >>)>>
            IN  IF s.bands < 1
                THEN [base EXCEPT
                         !.chunk = [c1 EXCEPT !.transform = Some(SrcTransform),
                                              !.projection = Some(SrcProjection),
                                              !.cell_size = Some(Abs(SrcTransform[6]))],
                         !.error = "AttributeError", !.events = ev1, !.held = TRUE]
                ELSE
                    LET c2 == [c1 EXCEPT
                                  !.transform = Some(SrcTransform),
                                  !.projection = Some(SrcProjection),
                                  !.cell_size = Some(Abs(SrcTransform[6])),
                                  !.nodata = s.nodata,
                                  !.data_type = Some(SrcDataType)]
                        px == PlanAxis(x_start, c2.cols, buffer, s.cols)
                        py == PlanAxis(y_start, c2.rows, buffer, s.rows)
                        plan == Some([x |-> px, y |-> py])
                        defined == NodataDefined(c2.nodata)
                        full == np_full(c2.bands, py.size, px.size,
                                        IF defined THEN c2.nodata[1] ELSE 0)
                        ev2 == ev1 \o <<Event("np.full", 0, <<c2.bands, py.size, px.size>>)>>
                    IN  IF full = None
                        THEN [base EXCEPT !.chunk = c2, !.error = "ValueError",
                                          !.events = ev1, !.plan = plan, !.held = TRUE]
                        ELSE
                            LET c3 == IF defined THEN [c2 EXCEPT !.data_array = full] ELSE c2
                                st == BandLoop(s, px, py, 1,
                                        [local |-> IF defined THEN None ELSE full,
                                         events |-> ev2, stores |-> << >>, error |-> ""])
                            IN  [chunk |-> c3, error |-> st.error, events |-> st.events,
                                 plan |-> plan, local |-> st.local, stores |-> st.stores,
                                 held |-> st.error # ""]

\* write_chunk(out_path) on chunk c without the test of os.path.exists
write_chunk_unchecked(c, files, out_path) ==
    LET base == [error |-> "", events |-> << >>, files |-> files, held |-> FALSE]
    IN  IF c.driver = None
        THEN [base EXCEPT !.error = "AttributeError"]
        ELSE
            LET driver == IF c.driver[1] = "Virtual Raster" THEN "GeoTIFF" ELSE c.driver[1]
                ev0 == << >>
            IN  IF "Datatype" \notin ChunkAttrs
                THEN [base EXCEPT !.error = "AttributeError", !.events = ev0]
                ELSE [base EXCEPT
                         !.error = "TypeError",
                         !.events = ev0 \o <<Event("Create", 0, <<c.cols, c.rows, c.bands>>),
                                             Event("SetGeoTransform", 0, << >>),
                                             Event("SetProjection", 0, << >>)>>,
                         !.files = [p \in DOMAIN files \cup {out_path} |->
                                       IF p = out_path THEN driver ELSE files[p]],
                         !.held = TRUE]

\* write_chunk(out_path) on chunk c: the exception raised, the backend and
\* filesystem calls made, the files afterwards and whether the output handle
\* is still held when the method is left
write_chunk(c, files, out_path) ==
    LET base == [error |-> "", events |-> << >>, files |-> files, held |-> FALSE]
    IN  IF c.driver = None
        THEN [base EXCEPT !.error = "AttributeError"]
        ELSE
            LET driver == IF c.driver[1] = "Virtual Raster" THEN "GeoTIFF" ELSE c.driver[1]
                ev0 == <<Event("exists", 0, << >>)>>
            IN  IF out_path \in DOMAIN files
                THEN [base EXCEPT !.error = "IOError", !.events = ev0]
                ELSE IF "Datatype" \notin ChunkAttrs
                THEN [base EXCEPT !.error = "AttributeError", !.events = ev0]
                ELSE [base EXCEPT
                         !.error = "TypeError",
                         !.events = ev0 \o <<Event("Create", 0, <<c.cols, c.rows, c.bands>>),
                                             Event("SetGeoTransform", 0, << >>),
                                             Event("SetProjection", 0, << >>)>>,
                         !.files = [p \in DOMAIN files \cup {out_path} |->
                                       IF p = out_path THEN driver ELSE files[p]],
                         !.held = TRUE]

-----------------------------------------------------------------------------
(* State machine *)

\* the outcome of the last method call
NoCall ==
    [op |-> "none", path |-> "", error |-> "", events |-> << >>, plan |-> None,
     local |-> None, stores |-> << >>, existed |-> FALSE, before |-> InitialFiles,
     driver |-> None]

Sources ==
    [cols : 1..MaxSrc, rows : 1..MaxSrc, bands : 0..MaxBands,
     nodata : NodataValues, driver : DriverNames]

Requests ==
    [x_start : 0..MaxStart, y_start : 0..MaxStart,
     read_x : (-1)..MaxRead, read_y : (-1)..MaxRead, buffer : 0..MaxBuf]

\* the 10 x 10 single-band grid and the read of the far-edge scenario
ScenarioSource ==
    [cols |-> 10, rows |-> 10, bands |-> 1, nodata |-> Some(-9999), driver |-> "GeoTIFF"]

ScenarioRequest ==
    [x_start |-> 8, y_start |-> 8, read_x |-> 4, read_y |-> 4, buffer |-> 2]

Init ==
    /\ \/ src \in Sources /\ request \in Requests
       \/ src = ScenarioSource /\ request = ScenarioRequest
    /\ fs = InitialFiles
    /\ chunk = NewChunk
    /\ last = NoCall
    /\ openHandles = 0
    /\ nops = 0

ReadChunk(dem_path) ==
    /\ nops < MaxOps
    /\ LET r == read_chunk(chunk, fs, src, dem_path, request.x_start, request.y_start,
                           request.read_x, request.read_y, request.buffer)
       IN  /\ chunk' = r.chunk
           /\ last' = [op |-> "read", path |-> dem_path, error |-> r.error,
                       events |-> r.events, plan |-> r.plan, local |-> r.local,
                       stores |-> r.stores, existed |-> dem_path \in DOMAIN fs,
                       before |-> fs, driver |-> chunk.driver]
           /\ openHandles' = openHandles + (IF r.held THEN 1 ELSE 0)
    /\ nops' = nops + 1
    /\ UNCHANGED <<src, request, fs>>

WriteChunk(out_path) ==
    /\ nops < MaxOps
    /\ LET w == write_chunk(chunk, fs, out_path)
       IN  /\ fs' = w.files
           /\ last' = [op |-> "write", path |-> out_path, error |-> w.error,
                       events |-> w.events, plan |-> None, local |-> None,
                       stores |-> << >>, existed |-> out_path \in DOMAIN fs,
                       before |-> fs, driver |-> chunk.driver]
           /\ openHandles' = openHandles + (IF w.held THEN 1 ELSE 0)
    /\ nops' = nops + 1
    /\ UNCHANGED <<src, request, chunk>>

Next ==
    \/ \E dem_path \in DemPaths : ReadChunk(dem_path)
    \/ \E out_path \in OutPaths : WriteChunk(out_path)

Spec == Init /\ [][Next]_vars

\* reads with the default window of read_chunk (the whole file), any buffer
DefaultRequests ==
    [x_start : {0}, y_start : {0}, read_x : {0}, read_y : {0}, buffer : 0..MaxBuf]

\* chunks read with the default window, then written: write_chunk depends on
\* the chunk's driver and on the files present, not on the window read
InitWrite ==
    /\ src \in Sources
    /\ request \in DefaultRequests
    /\ fs = InitialFiles
    /\ chunk = NewChunk
    /\ last = NoCall
    /\ openHandles = 0
    /\ nops = 0

SpecWrite == InitWrite /\ [][Next]_vars

-----------------------------------------------------------------------------
(* Properties *)

\* the last call was read_chunk on a source that could be opened
ReadOfSource == last.op = "read" /\ last.existed

\* the request has no negative argument
NonNegative ==
    /\ request.x_start >= 0 /\ request.y_start >= 0
    /\ request.read_x >= 0 /\ request.read_y >= 0
    /\ request.buffer >= 0

\* rows and cols of the requested window: the argument, or the source's extent
WantCols == IF request.read_x # 0 THEN request.read_x ELSE src.cols

WantRows == IF request.read_y # 0 THEN request.read_y ELSE src.rows

\* the window padded by margin on every side lies inside the source
WindowInside(margin) ==
    /\ NonNegative
    /\ request.x_start - margin >= 0
    /\ request.y_start - margin >= 0
    /\ request.x_start + WantCols + margin <= src.cols
    /\ request.y_start + WantRows + margin <= src.rows

\* the fill value of the source
Fill == IF src.nodata # None THEN src.nodata[1] ELSE 0

\* the rectangles handed to ReadAsArray by the last call
ReadCalls == {i \in DOMAIN last.events : last.events[i].call = "ReadAsArray"}

\* the calls of the last call that allocate, create or write
CallsNamed(names) == {i \in DOMAIN last.events : last.events[i].call \in names}

\* C1: every rectangle read_chunk hands to a band read, for non-negative
\* arguments, lies inside the source extent.
C1_ReadRectangleInsideSource ==
    (ReadOfSource /\ NonNegative) =>
        \A i \in ReadCalls :
            LET a == last.events[i].args
            IN  /\ 0 <= a[1] /\ a[1] + a[3] <= src.cols
                /\ 0 <= a[2] /\ a[2] + a[4] <= src.rows

\* C2: when the clamped read size is not positive on some axis of a buffered
\* read, read_chunk ends in InvalidWindowGeometry, having allocated no buffer
\* and issued no band read.
C2_NonPositiveSizeRejected ==
    (ReadOfSource /\ last.plan # None /\ request.buffer > 0
        /\ (last.plan[1].x.read_size <= 0 \/ last.plan[1].y.read_size <= 0)) =>
            /\ last.error = "InvalidWindowGeometry"
            /\ CallsNamed({"np.full", "ReadAsArray"}) = {}

\* C3: in a read of a source with at least one band, with or without nodata,
\* band b is stored at index b-1 of the chunk's own buffer, no band index is
\* out of range or lands in an unbound buffer, and a read that completes
\* leaves the chunk's buffer with shape (bands, rows+2*buffer, cols+2*buffer).
C3_BandsStoredInChunkBuffer ==
    (ReadOfSource /\ src.bands >= 1) =>
        /\ \A k \in DOMAIN last.stores : last.stores[k][2] = last.stores[k][1] - 1
        /\ last.error \notin {"IndexError", "UnboundLocalError"}
        /\ last.error = "" =>
              /\ chunk.data_array # None
              /\ chunk.data_array[1].nb = src.bands
              /\ chunk.data_array[1].ny = WantRows + 2 * request.buffer
              /\ chunk.data_array[1].nx = WantCols + 2 * request.buffer

\* C4: a read with buffer = 0 of a window inside the source yields a buffer
\* of shape (bands, read_y, read_x) holding exactly that window of every band.
C4_UnbufferedReadEqualsWindow ==
    (ReadOfSource /\ src.bands >= 1 /\ request.buffer = 0 /\ WindowInside(0)) =>
        /\ last.error = ""
        /\ chunk.data_array # None
        /\ chunk.data_array[1].nb = src.bands
        /\ chunk.data_array[1].ny = WantRows
        /\ chunk.data_array[1].nx = WantCols
        /\ \A p \in DOMAIN chunk.data_array[1].cells :
              chunk.data_array[1].cells[p]
                  = Pixel(p[1] + 1, request.y_start + p[2], request.x_start + p[3])

\* C5: a read with buffer > 0 whose padded window lies inside the source
\* yields a buffer whose centre is the unbuffered window and whose ring of
\* width buffer holds the fill value.
C5_BufferedReadCentreAndRing ==
    (ReadOfSource /\ src.bands >= 1 /\ request.buffer > 0
        /\ WindowInside(request.buffer)) =>
        /\ last.error = ""
        /\ chunk.data_array # None
        /\ \A p \in DOMAIN chunk.data_array[1].cells :
              LET r == p[2] - request.buffer
                  c == p[3] - request.buffer
              IN  chunk.data_array[1].cells[p]
                     = IF r >= 0 /\ r < WantRows /\ c >= 0 /\ c < WantCols
                       THEN Pixel(p[1] + 1, request.y_start + r, request.x_start + c)
                       ELSE Fill

\* C6: in the far-edge scenario (10 x 10 grid, one band, nodata -9999, read of
\* 4 x 4 at (8, 8) with buffer 2) the padded window is [6,12) on both axes,
\* the clamped read is [6,10) of size 4 x 4, and the 8 x 8 buffer holds source
\* rows/cols 6-9 with its last 2 rows and columns at -9999.
C6_FarEdgeScenario ==
    (ReadOfSource /\ src = ScenarioSource /\ request = ScenarioRequest) =>
        /\ last.plan # None
        /\ \A ax \in {last.plan[1].x, last.plan[1].y} :
              /\ ax.off = 6 /\ ax.off + ax.size = 12
              /\ ax.read_off = 6 /\ ax.read_size = 4
        /\ \A i \in ReadCalls : last.events[i].args = <<6, 6, 4, 4>>
        /\ last.error = ""
        /\ chunk.data_array # None
        /\ chunk.data_array[1].ny = 8 /\ chunk.data_array[1].nx = 8
        /\ \A p \in DOMAIN chunk.data_array[1].cells :
              /\ (p[2] >= 6 \/ p[3] >= 6) => chunk.data_array[1].cells[p] = -9999
              /\ (p[2] < 4 /\ p[3] < 4) =>
                    chunk.data_array[1].cells[p] = Pixel(1, 6 + p[2], 6 + p[3])

\* C7: write_chunk to a new path creates an output of cols x rows x bands and
\* writes, for each band b, the core sub-region
\* data[b-1, buffer:buffer+rows, buffer:buffer+cols] and nothing else.
C7_WriteCreatesCoreOutput ==
    (last.op = "write" /\ ~last.existed /\ last.driver # None /\ chunk.bands >= 1
        /\ chunk.data_array # None /\ WindowInside(0)) =>
        /\ \E i \in CallsNamed({"Create"}) :
              last.events[i].args = <<chunk.cols, chunk.rows, chunk.bands>>
        /\ \A b \in 1..chunk.bands :
              \E i \in CallsNamed({"WriteArray"}) :
                  /\ last.events[i].band = b
                  /\ last.events[i].args
                        = <<b - 1, chunk.buffer, chunk.buffer, chunk.rows, chunk.cols>>
        /\ Cardinality(CallsNamed({"WriteArray"})) = chunk.bands

\* C8 as stated: write_chunk with an out_path that exists fails with the
\* AlreadyExists error, makes no create or write call and leaves the file
\* unchanged.
C8_ExistingPathAlwaysAlreadyExists ==
    (last.op = "write" /\ last.existed) =>
        /\ last.error = "IOError"
        /\ CallsNamed({"Create", "SetGeoTransform", "SetProjection", "WriteArray"}) = {}
        /\ fs = last.before

\* C8 amended: write_chunk with an out_path that exists, on a chunk whose
\* driver was captured by read_chunk, fails with the AlreadyExists error; with
\* or without a driver it makes no create or write call and leaves the
\* existing file unchanged.
C8_ExistingPathRejected ==
    (last.op = "write" /\ last.existed) =>
        /\ last.driver # None => last.error = "IOError"
        /\ last.error # ""
        /\ CallsNamed({"Create", "SetGeoTransform", "SetProjection", "WriteArray"}) = {}
        /\ fs = last.before

\* a write to an existing path by a chunk that read_chunk gave a driver
C8_Witness ==
    /\ last.op = "write" /\ last.existed /\ last.path = "existing.tif"
    /\ last.driver # None
    /\ last.error = "IOError"
    /\ fs = InitialFiles

\* C9: no handle opened by read_chunk or created by write_chunk is still
\* held when the method returns or raises; stated for reads of a window that
\* lies inside a source with at least one band.
C9_NoHandleLeftOpen ==
    (src.bands >= 1 /\ WindowInside(0)) => openHandles = 0

\* C10: along both axes the destination slice is as long as the read
\* rectangle, and destination index i receives the source index
\* start - buffer + i; stated for requested windows that lie inside the
\* source, whatever the buffer.
C10_PlacementAligned ==
    (ReadOfSource /\ last.plan # None /\ WindowInside(0)) =>
        \A ax \in {last.plan[1].x, last.plan[1].y} :
            /\ SliceLen(ax.da_start, ax.da_end, ax.size) = ax.read_size
            /\ ax.read_off = ax.off + SliceStart(ax.da_start, ax.size)

\* a read of a path that cannot be opened leaves rows = read_y when read_y is
\* given, cols = read_x when both are given, and every other attribute as it was
MissingReadKeepsWindowArgs ==
    (last.op = "read" /\ ~last.existed /\ nops = 1) =>
        /\ last.error = "AttributeError"
        /\ chunk.rows = request.read_y
        /\ chunk.cols = (IF request.read_y # 0 THEN request.read_x ELSE 0)
        /\ chunk.driver = None /\ chunk.bands = 0 /\ chunk.data_array = None
        /\ openHandles = 0 /\ fs = InitialFiles

====
